---- MODULE Spec2Model ----
(***************************************************************************)
(* Model of the update pipeline of kandji/auto_app_updater.py: main() and  *)
(* the functions it calls (get_manifest, get_app_details, download_zip,    *)
(* upload_to_s3, update_app), with the remote collaborators (manifest      *)
(* endpoint, catalog API, artifact store) and the local file system as     *)
(* nondeterministic environment.                                           *)
(*                                                                         *)
(* JSON and Python scalars are written as strings: "None" is Python None   *)
(* (JSON null), "True"/"False" the booleans, "" the empty string; every    *)
(* other string is a non-empty JSON string.  A JSON object is a function   *)
(* from the keys that are present to their values.                         *)
(***************************************************************************)
EXTENDS Naturals, Sequences, FiniteSets

\* ---------------------------------------------------------------- bounds
\* Longest release list of a manifest.
MaxReleases == 2
\* Largest number of keys present in the catalog entry returned by the read.
MaxFields == 2

\* ------------------------------------------------------- python helpers
None == "None"
True == "True"
False == "False"

\* Python truthiness of a scalar (bool(v)): None, False and "" are falsy.
Truthy(v) == v \notin {None, False, ""}

\* d.get(k): the value, None when the key is absent.
Get(d, k) == IF k \in DOMAIN d THEN d[k] ELSE None

\* d.get(k, default): the default only when the key is absent.
GetOr(d, k, default) == IF k \in DOMAIN d THEN d[k] ELSE default

\* a or b
Or(a, b) == IF Truthy(a) THEN a ELSE b

\* A Python object that is None where a dict is expected.
NoneObj == [python_none |-> None]

\* ------------------------------------------------- module configuration
APP_NAME == "YourApp.app"
APP_INSTALL_TYPE == "package"
APP_INSTALL_ENFORCEMENT == "install_once"
\* Session retry policy: Retry(total=3, status_forcelist=[500, 502, 503, 504]).
RetryTotal == 3

\* ---------------------------------------------------------- the manifest
Versions == {None, "2.0.0", "2.1.0"}
OldUrl == "https://x/old.zip"
NewUrl == "https://x/new.zip"
\* What a release carries under updateTo: the key absent, JSON null, an
\* object whose url is "" or an object with a download URL.  (An object
\* without a url key behaves as the absent key: both give None.)
UpdateTos == {"absent", "null", "", OldUrl, NewUrl}
Releases == [version : Versions, updateTo : UpdateTos]

SeqsUpTo(S, n) == UNION {[1..k -> S] : k \in 0..n}

\* releases_kind: the releases key holds a list, is absent, or is JSON null.
Manifests ==
    [currentRelease : Versions, releases_kind : {"list"},
     releases : SeqsUpTo(Releases, MaxReleases)]
    \cup [currentRelease : Versions, releases_kind : {"absent", "null"},
          releases : {<<>>}]

\* release.get('updateTo', {}).get('url'); "AttributeError" when updateTo is
\* null (None has no get).
ReleaseUrl(r) ==
    CASE r.updateTo = "absent" -> None
      [] r.updateTo = "null" -> "AttributeError"
      [] OTHER -> r.updateTo

\* A mutation of the scan: the loop keeps going and the last release whose
\* version equals currentRelease wins.
FirstMatch_last(m) ==
    LET hits == {i \in 1..Len(m.releases) :
                    m.releases[i].version = m.currentRelease}
    IN IF hits = {} THEN 0
       ELSE CHOOSE i \in hits : \A j \in hits : i >= j

\* Index of the first release whose version equals currentRelease, 0 if none
\* (the for loop of get_manifest returns at the first match).
FirstMatch(m) ==
    LET hits == {i \in 1..Len(m.releases) :
                    m.releases[i].version = m.currentRelease}
    IN IF hits = {} THEN 0
       ELSE CHOOSE i \in hits : \A j \in hits : i <= j

\* A mutation of get_manifest: with no matching release, fall back to the
\* first release of the list.
get_manifest_fallback(m) ==
    IF m.releases_kind = "null"
    THEN [raised |-> "TypeError", url |-> None, version |-> None]
    ELSE LET i == IF FirstMatch(m) = 0 /\ Len(m.releases) > 0
                   THEN 1 ELSE FirstMatch(m)
         IN IF i = 0
            THEN [raised |-> "KandjiAPIError: Failed to find download URL in manifest",
                  url |-> None, version |-> None]
            ELSE IF ReleaseUrl(m.releases[i]) = "AttributeError"
            THEN [raised |-> "AttributeError", url |-> None, version |-> None]
            ELSE [raised |-> None, url |-> ReleaseUrl(m.releases[i]),
                  version |-> m.releases[i].version]

\* get_manifest on a fetched and parsed manifest: what it raises (None when
\* it returns) and the (download_url, version) pair it returns.
get_manifest(m) ==
    IF m.releases_kind = "null"
    THEN [raised |-> "TypeError", url |-> None, version |-> None]
    ELSE LET i == FirstMatch(m)
         IN IF i = 0
            THEN [raised |-> "KandjiAPIError: Failed to find download URL in manifest",
                  url |-> None, version |-> None]
            ELSE IF ReleaseUrl(m.releases[i]) = "AttributeError"
            THEN [raised |-> "AttributeError", url |-> None, version |-> None]
            ELSE [raised |-> None, url |-> ReleaseUrl(m.releases[i]),
                  version |-> m.releases[i].version]

\* ------------------------------------------------------ the catalog entry
ScriptFields == {"audit_script", "preinstall_script", "postinstall_script"}
OverrideFields == {"install_type", "install_enforcement", "show_in_self_service"}
Fields ==
    {"name", "file_key", "self_service_category_id", "unzip_location", "active"}
    \cup ScriptFields \cup OverrideFields

FieldValues(f) ==
    CASE f = "name" -> {"Other.app"}
      [] f = "file_key" -> {"key-old"}
      [] f = "install_type" -> {None, "zip"}
      [] f = "install_enforcement" -> {None, "continuously_enforce"}
      [] f = "show_in_self_service" -> {None, True, False}
      [] f = "self_service_category_id" -> {None, "", "cat-1"}
      [] f \in ScriptFields -> {"", "exit 0"}
      [] f = "unzip_location" -> {"", "/Applications"}
      [] f = "active" -> {True, False}

AllValues == UNION {FieldValues(f) : f \in Fields}

\* Every catalog entry with at most MaxFields keys present.
Configs ==
    UNION {{c \in [D -> AllValues] : \A f \in D : c[f] \in FieldValues(f)} :
           D \in {D \in SUBSET Fields : Cardinality(D) <= MaxFields}}


\* ------------------------------------------------------------------ state
VARIABLES
    pc,                  \* position in main() and the function it is inside
    stage,               \* the orchestrator state the run has reached
    dry_run,             \* main's dry_run argument
    APP_SHOW_IN_SELF_SERVICE,       \* environment-sourced default
    APP_SELF_SERVICE_CATEGORY_ID,   \* environment-sourced default
    manifest,            \* get_manifest's parsed manifest (NoneObj outside it)
    zip_url, version,    \* main's locals, from get_manifest
    retries,             \* re-sends the session adapter has spent on the GET in progress
    status_code,         \* status of the last answer to the catalog GET (None before one)
    current_app_details, \* main's local, from get_app_details
    catalog,             \* the catalog entry as the remote service holds it
    temp_file,           \* name of the file download_zip created
    zip_path,            \* main's local, from download_zip
    fs,                  \* the temporary files that exist
    file_key,            \* main's local, from upload_to_s3
    upload_details,      \* upload_to_s3's local, the upload slot granted
    slept,               \* the settling wait of upload_to_s3 has elapsed
    payload,             \* the PATCH payload update_app built
    sent,                \* the requests issued so far, in order
    summaries,           \* times the run summary was logged
    result,              \* main's return value
    exit_code,           \* the process exit code
    error,               \* the exception main caught
    warnings             \* cleanup warnings logged

vars == <<pc, stage, dry_run, APP_SHOW_IN_SELF_SERVICE,
          APP_SELF_SERVICE_CATEGORY_ID, manifest, zip_url, version, retries,
          status_code, current_app_details, catalog, temp_file, zip_path, fs, file_key,
          upload_details, slept, payload, sent, summaries, result, exit_code, error, warnings>>

env == <<dry_run, APP_SHOW_IN_SELF_SERVICE, APP_SELF_SERVICE_CATEGORY_ID>>

TempName == "/tmp/tmpab12.zip"
NewKey == "key-new"

\* ------------------------------------------------------------- update_app
\* The self-service branch of update_app, mutated to send the category
\* whatever the visibility.
SelfServicePart_always(shown, current_settings) ==
    [f \in {"self_service_category_id"} |->
        Or(Get(current_settings, "self_service_category_id"),
           APP_SELF_SERVICE_CATEGORY_ID)]

\* if payload['show_in_self_service']: payload["self_service_category_id"] =
\*     current_settings.get('self_service_category_id') or APP_SELF_SERVICE_CATEGORY_ID
SelfServicePart(shown, current_settings) ==
    IF Truthy(shown)
    THEN [f \in {"self_service_category_id"} |->
            Or(Get(current_settings, "self_service_category_id"),
               APP_SELF_SERVICE_CATEGORY_ID)]
    ELSE [f \in {} |-> None]

\* The base payload, mutated to echo the name the remote entry carries (the
\* configured name is used only when the entry has none).
BasePayload_echoes_name(key, current_settings) ==
    [name |-> GetOr(current_settings, "name", APP_NAME),
     file_key |-> key,
     install_type |-> GetOr(current_settings, "install_type", APP_INSTALL_TYPE),
     install_enforcement |->
        GetOr(current_settings, "install_enforcement", APP_INSTALL_ENFORCEMENT),
     show_in_self_service |->
        GetOr(current_settings, "show_in_self_service", APP_SHOW_IN_SELF_SERVICE),
     active |-> GetOr(current_settings, "active", True)]

\* The base payload, mutated to keep the file key the remote entry already
\* carries (the new key is used only when the entry has none).
BasePayload_keeps_key(key, current_settings) ==
    [name |-> APP_NAME,
     file_key |-> GetOr(current_settings, "file_key", key),
     install_type |-> GetOr(current_settings, "install_type", APP_INSTALL_TYPE),
     install_enforcement |->
        GetOr(current_settings, "install_enforcement", APP_INSTALL_ENFORCEMENT),
     show_in_self_service |->
        GetOr(current_settings, "show_in_self_service", APP_SHOW_IN_SELF_SERVICE),
     active |-> GetOr(current_settings, "active", True)]

\* The base payload, mutated to prefer a truthy remote value and fall back
\* to the default otherwise (`get(k) or default` for every field).
BasePayload_or(key, current_settings) ==
    [name |-> APP_NAME,
     file_key |-> key,
     install_type |-> Or(Get(current_settings, "install_type"), APP_INSTALL_TYPE),
     install_enforcement |->
        Or(Get(current_settings, "install_enforcement"), APP_INSTALL_ENFORCEMENT),
     show_in_self_service |->
        Or(Get(current_settings, "show_in_self_service"), APP_SHOW_IN_SELF_SERVICE),
     active |-> Or(Get(current_settings, "active"), True)]

\* payload = {"name": ..., "file_key": ..., "install_type": ..., ...}
BasePayload(key, current_settings) ==
    [name |-> APP_NAME,
     file_key |-> key,
     install_type |-> GetOr(current_settings, "install_type", APP_INSTALL_TYPE),
     install_enforcement |->
        GetOr(current_settings, "install_enforcement", APP_INSTALL_ENFORCEMENT),
     show_in_self_service |->
        GetOr(current_settings, "show_in_self_service", APP_SHOW_IN_SELF_SERVICE),
     active |-> GetOr(current_settings, "active", True)]

\* The keys copied by "Include existing scripts and settings": those of the
\* scripts and the unzip location whose value is truthy.
CopiedFields(current_settings) ==
    {f \in ScriptFields \cup {"unzip_location"} :
        Truthy(Get(current_settings, f))}

\* The payload update_app sends.
UpdatePayload(key, current_settings) ==
    LET base == BasePayload(key, current_settings)
        copied == CopiedFields(current_settings)
        ss == SelfServicePart(base["show_in_self_service"], current_settings)
    IN [f \in DOMAIN base \cup copied \cup DOMAIN ss |->
          IF f \in DOMAIN ss THEN ss[f]
          ELSE IF f \in copied THEN current_settings[f]
          ELSE base[f]]

\* The remote service applying a PATCH: the payload's keys replace the
\* entry's, the entry's other keys stay.
Patched(entry, p) ==
    [f \in DOMAIN entry \cup DOMAIN p |-> IF f \in DOMAIN p THEN p[f] ELSE entry[f]]

\* ------------------------------------------------------------------- init
Init ==
    /\ pc = "Start"
    /\ stage = "Start"
    /\ dry_run \in {True, False}
    /\ APP_SHOW_IN_SELF_SERVICE \in {True, False}
    /\ APP_SELF_SERVICE_CATEGORY_ID \in {None, "cat-local"}
    /\ manifest = NoneObj
    /\ zip_url = None
    /\ version = None
    /\ retries = 0
    /\ status_code = None
    /\ current_app_details = NoneObj
    /\ catalog = NoneObj
    /\ temp_file = None
    /\ zip_path = None
    /\ fs = {}
    /\ file_key = None
    /\ upload_details = NoneObj
    /\ slept = FALSE
    /\ payload = NoneObj
    /\ sent = <<>>
    /\ summaries = 0
    /\ result = None
    /\ exit_code = None
    /\ error = None
    /\ warnings = 0

\* A mutation of main's handler: the error is logged but `return False` is
\* missing, so main falls through and returns None.
Raise_no_return(e) ==
    /\ pc' = "finally"
    /\ stage' = "Failed"
    /\ result' = None
    /\ error' = e

\* An exception reaches main's `except Exception`: the error is logged and
\* main returns False, through the finally block.
Raise(e) ==
    /\ pc' = "finally"
    /\ stage' = "Failed"
    /\ result' = False
    /\ error' = e


\* ------------------------------------------------------------ get_manifest
\* requests.get(MANIFEST_URL, timeout=30), raise_for_status(), response.json()
FetchManifest ==
    /\ pc = "Start"
    /\ sent' = Append(sent, "GET manifest")
    /\ \/ /\ \E e \in {"RequestException", "JSONDecodeError"} : Raise(e)
          /\ UNCHANGED manifest
       \/ /\ \E m \in Manifests : manifest' = m
          /\ pc' = "get_manifest"
          /\ UNCHANGED <<stage, result, error>>
    /\ UNCHANGED <<env, zip_url, version, retries, status_code, current_app_details,
                   catalog, temp_file, zip_path, fs, file_key, upload_details,
                   slept, payload, summaries, exit_code, warnings>>

\* The scan of the release list, and main's check of the URL it returns.
\* A mutation of main: the `if not zip_url: raise` test is missing, so
\* whatever get_manifest returned is carried on to the catalog read.
ResolveManifest_unchecked ==
    /\ pc = "get_manifest"
    /\ LET r == get_manifest(manifest)
       IN IF r.raised # None
          THEN Raise(r.raised) /\ UNCHANGED <<zip_url, version>>
          ELSE /\ zip_url' = r.url
               /\ version' = r.version
               /\ pc' = "get_app_details"
               /\ stage' = "ManifestResolved"
               /\ UNCHANGED <<result, error>>
    /\ manifest' = NoneObj
    /\ UNCHANGED <<env, retries, status_code, current_app_details, catalog,
                   temp_file, zip_path, fs, file_key, upload_details, slept,
                   payload, sent, summaries, exit_code, warnings>>

\* zip_url, version = get_manifest(); if not zip_url: raise KandjiAPIError
ResolveManifest ==
    /\ pc = "get_manifest"
    /\ LET r == get_manifest(manifest)
       IN IF r.raised # None
          THEN Raise(r.raised) /\ UNCHANGED <<zip_url, version>>
          ELSE /\ zip_url' = r.url
               /\ version' = r.version
               /\ IF ~Truthy(r.url)
                  THEN Raise("KandjiAPIError: Failed to find download URL in manifest.")
                  ELSE /\ pc' = "get_app_details"
                       /\ stage' = "ManifestResolved"
                       /\ UNCHANGED <<result, error>>
    /\ manifest' = NoneObj
    /\ UNCHANGED <<env, retries, status_code, current_app_details, catalog, temp_file,
                   zip_path, fs, file_key, upload_details, slept, payload,
                   sent, summaries, exit_code, warnings>>

\* --------------------------------------------------------- get_app_details
\* The HTTP method of the catalog API request main has in progress on a
\* session built by create_session (None elsewhere: the manifest GET, the
\* artifact GET and the artifact-store POST go through plain requests calls,
\* which never re-send).
SessionMethod(p) ==
    CASE p = "get_app_details" -> "GET"
      [] p = "upload_slot" -> "POST"
      [] p = "update_app" -> "PATCH"
      [] OTHER -> None

\* A mutation of the retry policy: 404 is listed among the retried statuses.
status_forcelist_with_404 == {"404", "500", "502", "503", "504"}

\* status_forcelist=[500, 502, 503, 504]
status_forcelist == {"500", "502", "503", "504"}

\* Error statuses a request can be answered with that raise_for_status
\* turns into HTTPError.
ErrorStatuses == {"401", "404", "500", "502", "503", "504"}

\* A mutation of the retry policy: Retry(..., allowed_methods=None), which
\* re-sends a request of any method answered with a listed status.
RetriedMethod_any(method) == method # None

\* Retry(total=3, backoff_factor=1, status_forcelist=[500, 502, 503, 504])
\* leaves allowed_methods at its default, the idempotent methods: only a
\* request of one of these is re-sent on a listed status.
RetriedMethod(method) ==
    method \in {"GET", "HEAD", "PUT", "DELETE", "OPTIONS", "TRACE"}

\* The session adapter re-sends a request answered 500, 502, 503 or 504
\* while its method is retried and it has retries left; the re-send is the
\* adapter's, not a new request of main.
SessionRetry ==
    /\ RetriedMethod(SessionMethod(pc))
    /\ retries < RetryTotal
    /\ retries' = retries + 1
    /\ \E st \in status_forcelist : status_code' = st
    /\ UNCHANGED <<sent, pc, stage, env, manifest, zip_url, version,
                   current_app_details, catalog, temp_file, zip_path, fs,
                   file_key, upload_details, slept, payload, summaries,
                   result, exit_code, error, warnings>>

\* The GET fails: the retries are spent on a transient status (RetryError),
\* the status is another error (HTTPError), or the body is not JSON.  The
\* session and its adapter end with the call.
GetAppDetailsFail ==
    /\ pc = "get_app_details"
    /\ sent' = Append(sent, "GET app")
    /\ \/ /\ retries = RetryTotal
          /\ \E st \in status_forcelist : status_code' = st
          /\ Raise("RetryError")
       \/ /\ \E st \in ErrorStatuses \ status_forcelist : status_code' = st
          /\ Raise("HTTPError")
       \/ /\ status_code' = "200"
          /\ Raise("JSONDecodeError")
    /\ retries' = 0
    /\ UNCHANGED <<env, manifest, zip_url, version,
                   current_app_details, catalog, temp_file, zip_path, fs,
                   file_key, upload_details, slept, payload, summaries,
                   exit_code, warnings>>

\* The GET succeeds: response.json() if response.content else None.
GetAppDetailsOk ==
    /\ pc = "get_app_details"
    /\ sent' = Append(sent, "GET app")
    /\ \/ UNCHANGED <<current_app_details, catalog>>
       \/ \E c \in Configs : current_app_details' = c /\ catalog' = c
    /\ pc' = "summary"
    /\ stage' = "ConfigFetched"
    /\ retries' = 0
    /\ status_code' = "200"
    /\ UNCHANGED <<env, manifest, zip_url, version, temp_file,
                   zip_path, fs, file_key, upload_details, slept, payload,
                   summaries, result, exit_code, error, warnings>>

\* ----------------------------------------------------------------- main
\* A mutation of the dry-run test: the flag is ignored.
DryRunBranch_ignored == FALSE

\* if dry_run:
DryRunBranch == Truthy(dry_run)

\* The summary is prepared from current_app_details; a dry run logs it and
\* returns True, a real run goes on to the download.
PrepareSummary ==
    /\ pc = "summary"
    /\ IF current_app_details = NoneObj
       THEN Raise("AttributeError") /\ UNCHANGED summaries
       ELSE IF DryRunBranch
       THEN /\ summaries' = summaries + 1
            /\ stage' = "DryRunComplete"
            /\ result' = True
            /\ pc' = "finally"
            /\ UNCHANGED error
       ELSE /\ pc' = "download_zip"
            /\ UNCHANGED <<stage, result, error, summaries>>
    /\ UNCHANGED <<env, manifest, zip_url, version, retries, status_code,
                   current_app_details, catalog, temp_file, zip_path, fs,
                   file_key, upload_details, slept, payload, sent, exit_code,
                   warnings>>

\* ------------------------------------------------------------ download_zip
\* tempfile.NamedTemporaryFile(delete=False, suffix='.zip')
CreateTempFile ==
    /\ pc = "download_zip"
    /\ \/ /\ Raise("OSError")
          /\ UNCHANGED <<temp_file, fs>>
       \/ /\ temp_file' = TempName
          /\ fs' = fs \cup {TempName}
          /\ pc' = "download_get"
          /\ UNCHANGED <<stage, result, error>>
    /\ UNCHANGED <<env, manifest, zip_url, version, retries, status_code,
                   current_app_details, catalog, zip_path, file_key,
                   upload_details, slept, payload, sent, summaries, exit_code,
                   warnings>>

\* The streamed GET inside the with block; download_zip returns the file's
\* name only when the whole body was written.
DownloadBody ==
    /\ pc = "download_get"
    /\ sent' = Append(sent, "GET zip")
    /\ \/ /\ \E e \in {"HTTPError", "IOError"} : Raise(e)
          /\ UNCHANGED zip_path
       \/ /\ zip_path' = temp_file
          /\ stage' = "Downloaded"
          /\ pc' = "upload_slot"
          /\ UNCHANGED <<result, error>>
    /\ UNCHANGED <<env, manifest, zip_url, version, retries, status_code,
                   current_app_details, catalog, temp_file, fs, file_key,
                   upload_details, slept, payload, summaries, exit_code,
                   warnings>>

\* ------------------------------------------------------------ upload_to_s3
\* The upload slots the catalog API may answer with: complete, or lacking
\* the destination or the token.
UploadSlots ==
    {[post_url |-> "https://s3/x", post_data |-> "fields", file_key |-> NewKey],
     [post_data |-> "fields", file_key |-> NewKey],
     [post_url |-> "https://s3/x", post_data |-> "fields"]}

\* api_request('POST', "/v1/library/custom-apps/upload", ...)
RequestUploadSlot ==
    /\ pc = "upload_slot"
    /\ sent' = Append(sent, "POST upload")
    /\ \/ /\ \E e \in {"HTTPError", "JSONDecodeError"} : Raise(e)
          /\ UNCHANGED upload_details
       \/ /\ \E u \in UploadSlots : upload_details' = u
          /\ pc' = "upload_post"
          /\ UNCHANGED <<stage, result, error>>
    /\ UNCHANGED <<env, manifest, zip_url, version, retries, status_code,
                   current_app_details, catalog, temp_file, zip_path, fs,
                   file_key, slept, payload, summaries, exit_code, warnings>>

\* open(file_path, 'rb'), requests.post(s3_url, ...), raise_for_status()
PostToS3 ==
    /\ pc = "upload_post"
    /\ IF "post_url" \notin DOMAIN upload_details
       THEN Raise("KeyError") /\ UNCHANGED sent
       ELSE \/ Raise("OSError") /\ UNCHANGED sent
            \/ /\ sent' = Append(sent, "POST s3")
               /\ \/ Raise("HTTPError")
                  \/ /\ pc' = "upload_wait"
                     /\ UNCHANGED <<stage, result, error>>
    /\ UNCHANGED <<env, manifest, zip_url, version, retries, status_code,
                   current_app_details, catalog, temp_file, zip_path, fs,
                   file_key, upload_details, slept, payload, summaries,
                   exit_code, warnings>>

\* A mutation of the settling wait: the time.sleep(30) call is left out.
SleepElapsed_skipped == FALSE

\* time.sleep(30) returns when the interval has elapsed.
SleepElapsed == TRUE

\* time.sleep(30), then return upload_details['file_key'] to main.
SettlingWait ==
    /\ pc = "upload_wait"
    /\ slept' = SleepElapsed
    /\ IF "file_key" \notin DOMAIN upload_details
       THEN Raise("KeyError") /\ UNCHANGED file_key
       ELSE /\ file_key' = upload_details["file_key"]
            /\ stage' = "Uploaded"
            /\ pc' = "update_app"
            /\ UNCHANGED <<result, error>>
    /\ UNCHANGED <<env, manifest, zip_url, version, retries, status_code,
                   current_app_details, catalog, temp_file, zip_path, fs,
                   upload_details, payload, sent, summaries, exit_code,
                   warnings>>

\* -------------------------------------------------------------- update_app
\* A mutation of main's sequencing: update_app is called right after the
\* download, before upload_to_s3.
UpdateAppCalled_before_upload == pc \in {"upload_slot", "update_app"}

\* main calls update_app after upload_to_s3 has returned the file key.
UpdateAppCalled == pc = "update_app"

\* The PATCH: refused (the entry stays), applied and answered with JSON, or
\* applied and answered with a 2xx body that response.json() cannot parse.
UpdateApp ==
    /\ UpdateAppCalled
    /\ payload' = UpdatePayload(file_key, current_app_details)
    /\ sent' = Append(sent, "PATCH app")
    /\ \/ /\ Raise("HTTPError")
          /\ UNCHANGED catalog
       \/ /\ catalog' = Patched(catalog, payload')
          /\ Raise("JSONDecodeError")
       \/ /\ catalog' = Patched(catalog, payload')
          /\ stage' = "CatalogUpdated"
          /\ pc' = "log_summary"
          /\ UNCHANGED <<result, error>>
    /\ UNCHANGED <<env, manifest, zip_url, version, retries, status_code,
                   current_app_details, temp_file, zip_path, fs, file_key,
                   upload_details, slept, summaries, exit_code, warnings>>

\* A mutation of the success path: the summary of a real run is not logged.
LogSummary_silent ==
    /\ pc = "log_summary"
    /\ result' = True
    /\ pc' = "finally"
    /\ UNCHANGED <<stage, env, manifest, zip_url, version, retries, status_code,
                   current_app_details, catalog, temp_file, zip_path, fs,
                   file_key, upload_details, slept, payload, sent, exit_code,
                   error, warnings, summaries>>

\* "Update Summary:" is logged and main returns True.
LogSummary ==
    /\ pc = "log_summary"
    /\ summaries' = summaries + 1
    /\ result' = True
    /\ pc' = "finally"
    /\ UNCHANGED <<stage, env, manifest, zip_url, version, retries, status_code,
                   current_app_details, catalog, temp_file, zip_path, fs,
                   file_key, upload_details, slept, payload, sent, exit_code,
                   error, warnings>>

\* ----------------------------------------------------------------- finally
\* A mutation of the finally block: os.unlink is not wrapped in try/except,
\* so its failure replaces main's result by an escaping exception.
Cleanup_escalates ==
    /\ pc = "finally"
    /\ IF Truthy(zip_path)
       THEN \/ fs' = fs \ {zip_path} /\ UNCHANGED <<warnings, result, error>>
            \/ /\ result' = False
               /\ error' = "OSError"
               /\ UNCHANGED <<fs, warnings>>
       ELSE UNCHANGED <<fs, warnings, result, error>>
    /\ pc' = "returned"
    /\ UNCHANGED <<stage, env, manifest, zip_url, version, retries, status_code,
                   current_app_details, catalog, temp_file, zip_path,
                   file_key, upload_details, slept, payload, sent, summaries,
                   exit_code>>

\* if zip_path: os.unlink(zip_path), a failure of which is logged as a warning.
Cleanup ==
    /\ pc = "finally"
    /\ IF Truthy(zip_path)
       THEN \/ fs' = fs \ {zip_path} /\ UNCHANGED warnings
            \/ warnings' = warnings + 1 /\ UNCHANGED fs
       ELSE UNCHANGED <<fs, warnings>>
    /\ pc' = "returned"
    /\ UNCHANGED <<stage, env, manifest, zip_url, version, retries, status_code,
                   current_app_details, catalog, temp_file, zip_path,
                   file_key, upload_details, slept, payload, sent, summaries,
                   result, exit_code, error>>

\* A mutation of the exit status: always 0.
ExitCode_zero(success) == "0"

\* sys.exit(0 if success else 1)
ExitCode(success) == IF Truthy(success) THEN "0" ELSE "1"

Exit ==
    /\ pc = "returned"
    /\ exit_code' = ExitCode(result)
    /\ pc' = "done"
    /\ UNCHANGED <<stage, env, manifest, zip_url, version, retries, status_code,
                   current_app_details, catalog, temp_file, zip_path, fs,
                   file_key, upload_details, slept, payload, sent, summaries,
                   result, error, warnings>>

\* ------------------------------------------------------- a silent remote
\* The positions at which main waits for the answer to a request, and the
\* request each one issues.
NetworkCalls ==
    {"Start", "get_app_details", "download_get", "upload_slot", "upload_post",
     "update_app"}
RequestAt(p) ==
    CASE p = "Start" -> "GET manifest"
      [] p = "get_app_details" -> "GET app"
      [] p = "download_get" -> "GET zip"
      [] p = "upload_slot" -> "POST upload"
      [] p = "upload_post" -> "POST s3"
      [] p = "update_app" -> "PATCH app"

\* The calls made with timeout=30: requests.get in get_manifest and in
\* download_zip.  session.request in api_request and requests.post in
\* upload_to_s3 are given no timeout.
HasTimeout(p) == p \in {"Start", "download_get"}

\* The remote end accepts the request and never answers: a call with a
\* timeout raises requests.exceptions.Timeout, a call without one never
\* returns.
RemoteSilent ==
    /\ pc \in NetworkCalls
    /\ pc = "upload_post" => "post_url" \in DOMAIN upload_details
    /\ sent' = Append(sent, RequestAt(pc))
    /\ payload' = IF pc = "update_app"
                  THEN UpdatePayload(file_key, current_app_details)
                  ELSE payload
    /\ IF HasTimeout(pc)
       THEN Raise("Timeout")
       ELSE /\ pc' = "blocked"
            /\ UNCHANGED <<stage, result, error>>
    /\ UNCHANGED <<env, manifest, zip_url, version, retries, status_code,
                   current_app_details, catalog, temp_file, zip_path, fs,
                   file_key, upload_details, slept, summaries, exit_code,
                   warnings>>

Next ==
    \/ FetchManifest
    \/ ResolveManifest
    \/ SessionRetry
    \/ GetAppDetailsFail
    \/ GetAppDetailsOk
    \/ PrepareSummary
    \/ CreateTempFile
    \/ DownloadBody
    \/ RequestUploadSlot
    \/ PostToS3
    \/ SettlingWait
    \/ UpdateApp
    \/ LogSummary
    \/ Cleanup
    \/ Exit
    \/ RemoteSilent

Spec == Init /\ [][Next]_vars

\* The run is a single thread that takes its next step whenever it has one.
FairSpec == Spec /\ WF_vars(Next)


\* ------------------------------------------------ get_manifest on its own
\* get_manifest with the manifest fetched and parsed, for every manifest
\* within the bounds: the state is main's at the call, the manifest is kept
\* beside the outcome.
ResolverInit ==
    /\ pc = "get_manifest"
    /\ stage = "Start"
    /\ dry_run \in {True, False}
    /\ APP_SHOW_IN_SELF_SERVICE \in {True, False}
    /\ APP_SELF_SERVICE_CATEGORY_ID \in {None, "cat-local"}
    /\ manifest \in Manifests
    /\ zip_url = None
    /\ version = None
    /\ retries = 0
    /\ status_code = None
    /\ current_app_details = NoneObj
    /\ catalog = NoneObj
    /\ temp_file = None
    /\ zip_path = None
    /\ fs = {}
    /\ file_key = None
    /\ upload_details = NoneObj
    /\ slept = FALSE
    /\ payload = NoneObj
    /\ sent = <<"GET manifest">>
    /\ summaries = 0
    /\ result = None
    /\ exit_code = None
    /\ error = None
    /\ warnings = 0

\* The scan of get_manifest runs to its return or its raise.
ResolverCall ==
    /\ pc = "get_manifest"
    /\ LET r == get_manifest(manifest)
       IN /\ error' = r.raised
          /\ zip_url' = r.url
          /\ version' = r.version
    /\ pc' = "get_manifest_left"
    /\ UNCHANGED <<stage, env, manifest, retries, status_code,
                   current_app_details, catalog, temp_file, zip_path, fs,
                   file_key, upload_details, slept, payload, sent, summaries,
                   result, exit_code, warnings>>

ResolverNext == ResolverCall

ResolverSpec == ResolverInit /\ [][ResolverNext]_vars


\* ================================================================ claims
Sent(req) == \E i \in 1..Len(sent) : sent[i] = req
\* Position of the first request of a kind (0 when none was sent).
First(req) ==
    IF Sent(req) THEN CHOOSE i \in 1..Len(sent) :
                        sent[i] = req /\ \A j \in 1..(i - 1) : sent[j] # req
    ELSE 0
Finished == pc = "done"
PayloadBuilt == payload # NoneObj

\* C1: after a finished run no temporary file created by the run exists,
\* whatever stage failed (stated for the runs in which no deletion failed,
\* so that a failing os.unlink is not what refutes it).
C1_NoTempFileAfterRun == (Finished /\ warnings = 0) => fs = {}

\* C2: a PATCH has been sent only if, before it and in this order, the
\* download succeeded (main holds the file's path), the upload slot was
\* granted and the artifact POST succeeded (main holds the file key).
C2_PatchOnlyAfterTransfer ==
    Sent("PATCH app") =>
        /\ Truthy(zip_path) /\ zip_path \in {TempName}
        /\ "post_url" \in DOMAIN upload_details
        /\ file_key = NewKey
        /\ 0 < First("GET zip")
        /\ First("GET zip") < First("POST upload")
        /\ First("POST upload") < First("POST s3")
        /\ First("POST s3") < First("PATCH app")
C2_Witness == Sent("PATCH app") /\ stage = "CatalogUpdated"

\* C3: a dry run never downloads (no GET of the artifact, no temporary
\* file), never POSTs and never PATCHes, whatever the manifest and the
\* catalog entry hold and however the reads end.
C3_DryRunReadsOnly ==
    dry_run = True =>
        /\ ~Sent("GET zip") /\ ~Sent("POST upload")
        /\ ~Sent("POST s3") /\ ~Sent("PATCH app")
        /\ temp_file = None /\ fs = {} /\ zip_path = None
        /\ payload = NoneObj
        /\ catalog = current_app_details
C3_Witness == dry_run = True /\ Finished /\ stage = "DryRunComplete"

\* C4: no partial success: a finished run that reports failure has left the
\* catalog entry as it read it, and one that reports the update carries the
\* new file key in the entry.
C4_NoPartialSuccess ==
    Finished =>
        /\ result = False => catalog = current_app_details
        /\ (result = True /\ stage = "CatalogUpdated") =>
               Get(catalog, "file_key") = NewKey

\* C5: the payload of a successful real run holds every key of the
\* pre-update entry, the self-service category apart (the file key is
\* always in the payload, with the new value).
C5_NoFieldDropped ==
    stage = "CatalogUpdated" =>
        \A f \in DOMAIN current_app_details \ {"self_service_category_id"} :
            f \in DOMAIN payload

\* C6: in every payload built, the self-service category key is present
\* exactly when the payload's self-service visibility is true.
C6_CategoryIffVisible ==
    PayloadBuilt =>
        ("self_service_category_id" \in DOMAIN payload
            <=> payload["show_in_self_service"] = True)
C6_Witness ==
    /\ PayloadBuilt
    /\ "self_service_category_id" \in DOMAIN payload
    /\ "show_in_self_service" \notin DOMAIN current_app_details

\* The locally configured default of an override field.
LocalDefault(f) ==
    CASE f = "install_type" -> APP_INSTALL_TYPE
      [] f = "install_enforcement" -> APP_INSTALL_ENFORCEMENT
      [] f = "show_in_self_service" -> APP_SHOW_IN_SELF_SERVICE
      [] f = "self_service_category_id" -> APP_SELF_SERVICE_CATEGORY_ID
\* The remote entry has a value for the field: the key is present and holds
\* neither null nor the empty string.
HasValue(c, f) == f \in DOMAIN c /\ c[f] \notin {None, ""}

\* C7: for install type, enforcement, visibility and category, a payload
\* that carries the field carries the remote value whenever the remote
\* entry has one, and carries something else than what the remote entry
\* holds only when the remote entry has no value, and then the local
\* default; a remote category is echoed whenever the visibility is true.
C7_RemoteBeforeDefault ==
    PayloadBuilt =>
        /\ \A f \in (OverrideFields \cup {"self_service_category_id"})
                        \cap DOMAIN payload :
              /\ HasValue(current_app_details, f) =>
                     payload[f] = current_app_details[f]
              /\ payload[f] # Get(current_app_details, f) =>
                     /\ ~HasValue(current_app_details, f)
                     /\ payload[f] = LocalDefault(f)
        /\ OverrideFields \subseteq DOMAIN payload
        /\ (payload["show_in_self_service"] = True
              /\ HasValue(current_app_details, "self_service_category_id")) =>
               "self_service_category_id" \in DOMAIN payload
C7_Witness ==
    /\ PayloadBuilt
    /\ Get(current_app_details, "show_in_self_service") = True
    /\ Get(current_app_details, "self_service_category_id") = "cat-1"
    /\ payload["self_service_category_id"] = "cat-1"
    /\ APP_SELF_SERVICE_CATEGORY_ID = "cat-local"

\* No release of the manifest has the version currentRelease names.
NoMatchingRelease(m) ==
    \A i \in 1..Len(m.releases) : m.releases[i].version # m.currentRelease
AfterCleanup == pc \in {"finally", "returned", "done"}

\* C8: when no release of the fetched manifest matches currentRelease (the
\* list empty, missing or null included), get_manifest raises; and a run
\* that left get_manifest without a URL is failed, has issued no request but
\* the manifest GET, created no file, and exits with 1.
C8_NoMatchFails ==
    /\ [][(pc = "get_manifest" /\ NoMatchingRelease(manifest)) =>
             /\ error' \in {"KandjiAPIError: Failed to find download URL in manifest",
                            "TypeError"}
             /\ pc' = "finally" /\ stage' = "Failed" /\ result' = False
             /\ zip_url' = None]_vars
    /\ []((zip_url = None /\ pc \notin {"Start", "get_manifest"}) =>
             /\ stage = "Failed" /\ AfterCleanup /\ result = False
             /\ sent = <<"GET manifest">>
             /\ temp_file = None /\ fs = {} /\ payload = NoneObj
             /\ (Finished => exit_code = "1"))
C8_Witness ==
    /\ Finished
    /\ error = "KandjiAPIError: Failed to find download URL in manifest"
    /\ exit_code = "1"

\* C9: an error raised by any stage makes the run Failed in that very step,
\* with control at the cleanup and main's result False; a Failed run issues
\* no further request, builds no payload, changes nothing remote and exits
\* with 1; e.g. after a refused upload slot request the temporary file is
\* deleted (unless the deletion itself fails) and no PATCH was sent.
C9_ErrorGoesToCleanup ==
    /\ [][(error = None /\ error' # None) =>
             (pc' = "finally" /\ stage' = "Failed" /\ result' = False)]_vars
    /\ [][stage = "Failed" =>
             /\ stage' = "Failed" /\ result' = False /\ error' = error
             /\ sent' = sent /\ payload' = payload /\ catalog' = catalog
             /\ temp_file' = temp_file /\ file_key' = file_key
             /\ pc' \in {"returned", "done"}]_vars
    /\ [](stage = "Failed" <=> error # None)
    /\ []((stage = "Failed" /\ Finished) => exit_code = "1")
    /\ []((stage = "Failed" /\ Finished /\ Len(sent) > 0
            /\ sent[Len(sent)] = "POST upload") =>
             /\ ~Sent("PATCH app") /\ ~Sent("POST s3")
             /\ (warnings = 0 => fs = {}))
C9_Witness ==
    /\ Finished /\ stage = "Failed"
    /\ sent[Len(sent)] = "POST upload"
    /\ fs = {} /\ exit_code = "1"

\* C10: the exit code of a finished run is 0 or 1; it is 0 exactly when the
\* run reached DryRunComplete or CatalogUpdated, and 1 when a stage failed.
C10_ExitCode ==
    Finished =>
        /\ exit_code \in {"0", "1"}
        /\ exit_code = "0" <=> stage \in {"DryRunComplete", "CatalogUpdated"}
        /\ exit_code = "1" <=> stage = "Failed"
C10_Witness == Finished /\ exit_code = "0" /\ stage = "CatalogUpdated"


Count(req) == Cardinality({i \in 1..Len(sent) : sent[i] = req})
LastSent == IF sent = <<>> THEN None ELSE sent[Len(sent)]

\* C11: main issues the upload slot POST, the artifact-store POST and the
\* catalog PATCH at most once each, and the session adapter spends a
\* re-send only on the catalog GET: never on a POST or the PATCH, whatever
\* the answer.
C11_MutatingSentOnce ==
    /\ Count("POST upload") <= 1
    /\ Count("POST s3") <= 1
    /\ Count("PATCH app") <= 1
    /\ retries > 0 =>
           \/ pc = "get_app_details"
           \/ pc = "blocked" /\ LastSent = "GET app"
    /\ pc \in {"upload_slot", "upload_post", "upload_wait", "update_app"} =>
           retries = 0
C11_Witness ==
    /\ Finished /\ stage = "Failed" /\ error = "HTTPError"
    /\ LastSent = "PATCH app" /\ Count("PATCH app") = 1
    /\ Count("POST upload") = 1 /\ Count("POST s3") = 1

\* C12: main holds the file key only after the artifact-store POST was
\* sent and the settling wait has elapsed, a PATCH is sent only after the
\* wait, the wait starts only from a POST that succeeded, and a step that
\* fails the POST leaves the wait undone for the rest of the run.
C12_WaitBeforeToken ==
    /\ [](file_key # None => (slept /\ Sent("POST s3")))
    /\ [](Sent("PATCH app") =>
             (slept /\ 0 < First("POST s3")
                    /\ First("POST s3") < First("PATCH app")))
    /\ [](pc = "update_app" => slept)
    /\ [][(~slept /\ slept') =>
             (pc = "upload_wait" /\ LastSent = "POST s3" /\ error = None)]_vars
    /\ [][(pc = "upload_post" /\ error' # None) => ~slept']_vars
    /\ [][(stage = "Failed" /\ ~slept) => ~slept']_vars
C12_Witness ==
    /\ pc = "update_app" /\ slept /\ file_key = NewKey
    /\ LastSent = "POST s3"

\* C13: the file key of every payload built is the token of the upload
\* slot granted in this run, as it was received, whatever file key the
\* pre-update entry carried.
C13_TokenPassedThrough ==
    PayloadBuilt =>
        /\ "file_key" \in DOMAIN upload_details
        /\ payload["file_key"] = upload_details["file_key"]
        /\ payload["file_key"] = file_key
        /\ Sent("POST upload")
C13_Witness ==
    /\ PayloadBuilt
    /\ Get(current_app_details, "file_key") = "key-old"
    /\ payload["file_key"] = NewKey
    /\ Get(catalog, "file_key") = NewKey


\* C14: every run terminates: whatever the remote collaborators do, and a
\* collaborator that never answers included, the run reaches the end of
\* main and the process exits.
C14_EveryRunTerminates == <>Finished


ReadSteps == <<"GET manifest", "GET app">>

\* C15: a dry run issues the manifest GET, then the catalog GET, and no
\* other request; it ends in DryRunComplete exactly when the manifest gave
\* a download URL and the catalog read gave an entry, and it ends Failed,
\* exit 1, when the catalog read failed.
C15_DryRunIsTheTwoReads ==
    dry_run = True =>
        /\ \E n \in 0..2 : sent = SubSeq(ReadSteps, 1, n)
        /\ stage = "DryRunComplete" =>
               /\ sent = ReadSteps /\ error = None /\ result = True
               /\ Truthy(zip_url) /\ current_app_details # NoneObj
        /\ Finished =>
               /\ stage = "DryRunComplete" <=>
                      (Truthy(zip_url) /\ current_app_details # NoneObj)
               /\ stage = "DryRunComplete" <=> exit_code = "0"
        /\ (Finished /\ sent = ReadSteps /\ current_app_details = NoneObj) =>
               (stage = "Failed" /\ exit_code = "1")
C15_Witness ==
    /\ dry_run = True /\ Finished /\ sent = ReadSteps
    /\ error = "HTTPError" /\ stage = "Failed" /\ exit_code = "1"

\* The download URL a release carries, None when it carries none.
UrlOf(r) == IF r.updateTo = "absent" THEN None ELSE r.updateTo
\* The first release of the manifest whose version equals currentRelease.
Matching(m) ==
    m.releases[CHOOSE i \in 1..Len(m.releases) :
                  /\ m.releases[i].version = m.currentRelease
                  /\ \A j \in 1..(i - 1) :
                        m.releases[j].version # m.currentRelease]
HasMatch(m) ==
    \E i \in 1..Len(m.releases) : m.releases[i].version = m.currentRelease
ManifestErrors ==
    {"KandjiAPIError: Failed to find download URL in manifest", "TypeError",
     "AttributeError"}

\* C16 as stated: whenever the manifest holds a release whose version
\* equals currentRelease, get_manifest returns, and gives main that
\* release's URL and version.
C16_MatchAlwaysReturned ==
    [][(pc = "get_manifest" /\ HasMatch(manifest)) =>
          /\ error' \notin ManifestErrors
          /\ zip_url' = UrlOf(Matching(manifest))
          /\ version' = Matching(manifest).version]_vars

\* C16, amended: whenever the manifest holds a release whose version
\* equals currentRelease and the first such release has updateTo absent or
\* an object, get_manifest returns that release's URL (None when it has
\* none) and version; when its updateTo is null get_manifest raises
\* AttributeError and gives main nothing.
C16_MatchReturnedUnlessNull ==
    [][(pc = "get_manifest" /\ HasMatch(manifest)) =>
          IF Matching(manifest).updateTo = "null"
          THEN error' = "AttributeError" /\ zip_url' = None /\ version' = None
          ELSE /\ error' \notin ManifestErrors
               /\ zip_url' = UrlOf(Matching(manifest))
               /\ version' = Matching(manifest).version]_vars
C16_Witness ==
    /\ pc = "get_app_details" /\ zip_url = NewUrl /\ version = "2.1.0"

\* C17 as stated: every finished run has logged the summary exactly once.
C17_SummaryOncePerRun == Finished => summaries = 1

\* C17, amended: the summary is logged exactly once in every run that
\* succeeds, dry or real, in the step in which main returns True, never
\* more than once, and not at all in a run that fails.
C17_SummaryOncePerSuccess ==
    /\ [](summaries <= 1)
    /\ []((pc \in {"finally", "returned", "done"}) =>
             (summaries = 1 <=> result = True))
    /\ [](summaries = 1 <=> stage \in {"DryRunComplete", "CatalogUpdated"}
                              /\ pc # "log_summary")
    /\ [][summaries' # summaries =>
             (summaries' = summaries + 1 /\ pc' = "finally"
              /\ result' = True)]_vars
C17_Witness ==
    /\ Finished /\ summaries = 1 /\ dry_run = False /\ result = True

\* C18: a failing os.unlink in the cleanup only adds a warning: the cleanup
\* step changes neither main's result nor the error nor the stage, and a
\* run that logged the warning exits 0 if its pipeline succeeded and 1 if
\* it failed.
C18_UnlinkFailureIsWarning ==
    /\ [][pc = "finally" =>
             /\ result' = result /\ error' = error /\ stage' = stage
             /\ pc' = "returned"
             /\ warnings' \in {warnings, warnings + 1}
             /\ warnings' # warnings => fs' = fs]_vars
    /\ []((warnings > 0 /\ Finished) =>
             /\ warnings = 1
             /\ result = (IF stage = "Failed" THEN False ELSE True)
             /\ exit_code = (IF stage = "Failed" THEN "1" ELSE "0"))
C18_Witness ==
    /\ Finished /\ warnings = 1 /\ stage = "CatalogUpdated"
    /\ result = True /\ exit_code = "0" /\ fs = {TempName}

\* The steps the orchestrator may take from one stage to the next.
StageSteps ==
    {<<"Start", "ManifestResolved">>, <<"ManifestResolved", "ConfigFetched">>,
     <<"ConfigFetched", "DryRunComplete">>, <<"ConfigFetched", "Downloaded">>,
     <<"Downloaded", "Uploaded">>, <<"Uploaded", "CatalogUpdated">>}
     \cup {<<s, "Failed">> :
             s \in {"Start", "ManifestResolved", "ConfigFetched", "Downloaded",
                    "Uploaded"}}

\* C20: the stage only moves along Start, ManifestResolved, ConfigFetched,
\* Downloaded, Uploaded, CatalogUpdated (or to DryRunComplete or Failed), so
\* a run at CatalogUpdated passed each stage once and in this order; it has
\* issued each request once, the catalog GET before the artifact GET.
C20_StagesInOrder ==
    /\ [][stage' # stage => <<stage, stage'>> \in StageSteps]_vars
    /\ [](stage = "CatalogUpdated" =>
             /\ dry_run = False
             /\ sent = <<"GET manifest", "GET app", "GET zip", "POST upload",
                         "POST s3", "PATCH app">>)
    /\ [](Sent("GET zip") =>
             (Count("GET app") = 1 /\ First("GET app") < First("GET zip")))
    /\ [](Count("GET app") <= 1)
C20_Witness ==
    /\ stage = "CatalogUpdated" /\ Finished /\ warnings = 0 /\ fs = {}
    /\ Count("GET app") = 1


PassedThroughFields == ScriptFields \cup {"unzip_location", "active"}

\* C21: every lifecycle script, the unzip location and the active flag that
\* the pre-update entry holds is in the payload with the identical value,
\* whatever the value (empty and false included).
C21_PresentFieldsPassedThrough ==
    PayloadBuilt =>
        \A f \in PassedThroughFields \cap DOMAIN current_app_details :
            /\ f \in DOMAIN payload
            /\ payload[f] = current_app_details[f]


\* The statuses the claim calls transient server errors.
TransientStatuses == {"500", "502", "503", "504"}
\* A step in which the catalog GET in progress is answered.
ConfigReadAnswered == pc = "get_app_details" /\ pc' # "blocked"

\* C22: an answer to the catalog GET with status 500, 502, 503 or 504 is
\* followed by a re-send while fewer than 3 re-sends were made, and fails
\* the run (RetryError, exit 1) once 3 were made; no call has more than 3
\* re-sends; an answer with any other error status (404, 401) fails the run
\* in that step without a re-send.
C22_TransientGetRetried ==
    /\ [](retries <= 3)
    /\ [][(ConfigReadAnswered /\ status_code' \in TransientStatuses) =>
             IF retries < 3
             THEN /\ retries' = retries + 1 /\ pc' = "get_app_details"
                  /\ stage' = stage /\ error' = None /\ sent' = sent
             ELSE /\ stage' = "Failed" /\ error' = "RetryError"
                  /\ result' = False /\ pc' = "finally"]_vars
    /\ [][(ConfigReadAnswered /\ status_code' \in {"401", "404"}) =>
             /\ retries' = 0 /\ pc' = "finally" /\ stage' = "Failed"
             /\ error' = "HTTPError" /\ result' = False]_vars
    /\ [][retries' > retries =>
             /\ pc = "get_app_details" /\ retries' = retries + 1
             /\ status_code' \in TransientStatuses]_vars
    /\ []((Finished /\ error \in {"RetryError", "HTTPError"}
             /\ LastSent = "GET app") => exit_code = "1")
C22_Witness ==
    /\ Finished /\ error = "RetryError" /\ status_code = "503"
    /\ sent = ReadSteps /\ exit_code = "1"


NoUrlError == "KandjiAPIError: Failed to find download URL in manifest."

\* C23: when the release matching currentRelease carries no download URL
\* (updateTo missing or null, url missing or empty), the run fails in the
\* resolving step, having sent the manifest GET only; and a run past the
\* resolution without a URL never sends a catalog request, creates no file,
\* builds no payload and exits 1.
C23_NoUrlFailsBeforeCatalog ==
    /\ [][(pc = "get_manifest" /\ HasMatch(manifest)
             /\ Matching(manifest).updateTo \in {"absent", "null", ""}) =>
             /\ pc' = "finally" /\ stage' = "Failed" /\ result' = False
             /\ error' \in {NoUrlError, "AttributeError"}
             /\ sent' = <<"GET manifest">>]_vars
    /\ []((~Truthy(zip_url) /\ pc \notin {"Start", "get_manifest"}) =>
             /\ stage = "Failed" /\ AfterCleanup
             /\ sent = <<"GET manifest">>
             /\ catalog = NoneObj /\ current_app_details = NoneObj
             /\ temp_file = None /\ fs = {} /\ file_key = None
             /\ payload = NoneObj
             /\ (Finished => exit_code = "1"))
C23_Witness ==
    /\ Finished /\ error = NoUrlError /\ version = "2.1.0" /\ zip_url = ""
    /\ sent = <<"GET manifest">> /\ exit_code = "1"


\* The number of releases whose version equals currentRelease.
MatchCount(m) ==
    Cardinality({i \in 1..Len(m.releases) :
                    m.releases[i].version = m.currentRelease})
ResolverLeft == pc = "get_manifest_left"

\* C24 as stated: when more than one release has the version currentRelease
\* names, get_manifest does not fail and returns the URL and version of the
\* first of them.
C24_FirstDuplicateAlwaysReturned ==
    (ResolverLeft /\ MatchCount(manifest) > 1) =>
        /\ error = None
        /\ zip_url = UrlOf(Matching(manifest))
        /\ version = Matching(manifest).version

\* C24, amended: when more than one release has the version currentRelease
\* names, get_manifest returns the URL and version of the first of them in
\* list order, whatever the later ones carry, and does not fail unless that
\* first release's updateTo is null, in which case it raises AttributeError.
C24_FirstDuplicateWins ==
    (ResolverLeft /\ MatchCount(manifest) > 1) =>
        IF Matching(manifest).updateTo = "null"
        THEN error = "AttributeError" /\ zip_url = None /\ version = None
        ELSE /\ error = None
             /\ zip_url = UrlOf(Matching(manifest))
             /\ version = Matching(manifest).version
C24_Witness ==
    /\ ResolverLeft
    /\ manifest.currentRelease = "2.1.0"
    /\ manifest.releases = <<[version |-> "2.1.0", updateTo |-> OldUrl],
                             [version |-> "2.1.0", updateTo |-> NewUrl]>>
    /\ error = None /\ zip_url = OldUrl /\ version = "2.1.0"


\* C25: the name of every payload built is the configured APP_NAME, also
\* when the pre-update entry holds another name; and the entry a PATCH was
\* applied to holds APP_NAME.
C25_NameIsConfigured ==
    /\ PayloadBuilt =>
          /\ "name" \in DOMAIN payload
          /\ payload["name"] = APP_NAME
    /\ (Sent("PATCH app") /\ catalog # current_app_details) =>
          Get(catalog, "name") = APP_NAME
C25_Witness ==
    /\ Sent("PATCH app") /\ PayloadBuilt
    /\ Get(current_app_details, "name") = "Other.app"
    /\ payload["name"] = APP_NAME
    /\ Get(catalog, "name") = APP_NAME

====
